---- MODULE Spec2Model ----
(***************************************************************************)
(* A model of build_static.py, the static page generator of the NetLogo    *)
(* models library: extract_info, relative_image_path, netlogoweb_url,      *)
(* render_model_page, add_to_tree, render_tree, render_index and main.     *)
(*                                                                         *)
(* Text is modelled as a sequence of one-character strings.  The fixed     *)
(* parts of the HTML templates, which hold no data, are single multi-      *)
(* character strings in these sequences, so that the data written between  *)
(* them can be read back from a rendered document.  A model file's text is *)
(* a sequence of tokens in which a delimiter of the documentation block is *)
(* one token.                                                              *)
(***************************************************************************)
EXTENDS Integers, Sequences, FiniteSets, TLC

VARIABLES
    pc,           \* position of main: "start", "loop", "extracted", "rendered",
                  \* "written", "done", "aborted"; "idle" in the other specifications
    fs_models,    \* the *.nlogox files under MODELS_DIR (relative paths, as part lists)
    fs_text,      \* the text of each model file
    fs_png,       \* the relative paths of the models that have a sibling .png
    model_paths,  \* main's model_paths: the sorted list of discovered models
    idx,          \* index into model_paths of the model the loop is at
    info_html,    \* main's info_html of the current model
    page_html,    \* main's page_html of the current model
    tree,         \* main's tree
    site,         \* the files written under SITE_DIR/models: output path -> html
    index_html,   \* the content of SITE_DIR/index.html, <<>> while unwritten
    index_writes, \* how many times SITE_DIR/index.html has been written
    x_text,       \* SpecExtract: the text given to extract_info
    x_result,     \* SpecExtract: what extract_info returned, None before the call
    t_pending,    \* SpecTree: the entries not inserted yet
    t_entries,    \* SpecTree: all the entries of the run
    t_tree,       \* SpecTree: the tree built so far
    t_out         \* SpecTree: the result of render_tree, None before the call

vars == <<pc, fs_models, fs_text, fs_png, model_paths, idx, info_html, page_html,
          tree, site, index_html, index_writes,
          x_text, x_result, t_pending, t_entries, t_tree, t_out>>

mainVars == <<pc, fs_models, fs_text, fs_png, model_paths, idx, info_html,
              page_html, tree, site, index_html, index_writes>>
extractVars == <<x_text, x_result>>
treeVars == <<t_pending, t_entries, t_tree, t_out>>

None == "None"

\* the variables of a specification that is not the one running
IdleMain ==
    /\ pc = "idle" /\ fs_models = {} /\ fs_text = <<>> /\ fs_png = {}
    /\ model_paths = <<>> /\ idx = 0 /\ info_html = <<>> /\ page_html = <<>>
    /\ tree = <<>> /\ site = <<>> /\ index_html = <<>> /\ index_writes = 0
IdleExtract == x_text = <<>> /\ x_result = None
IdleTree == t_pending = {} /\ t_entries = {} /\ t_tree = <<>> /\ t_out = None

-----------------------------------------------------------------------------
(* Bounds *)

MaxLen == 5        \* longest model-file text of SpecExtract, in tokens
MaxModels == 2     \* most model files under MODELS_DIR in one run of main
MaxEntries == 3    \* most entries inserted into one tree in SpecTree

-----------------------------------------------------------------------------
(* Generic sequence helpers *)

RECURSIVE SeqsUpTo(_, _)
SeqsUpTo(S, n) ==
    IF n = 0 THEN {<<>>}
    ELSE LET shorter == SeqsUpTo(S, n - 1)
         IN shorter \cup {Append(s, e) : s \in {t \in shorter : Len(t) = n - 1}, e \in S}

RECURSIVE Concat(_)
Concat(ss) == IF ss = <<>> THEN <<>> ELSE Head(ss) \o Concat(Tail(ss))

RECURSIVE Repeat(_, _)
Repeat(s, n) == IF n = 0 THEN <<>> ELSE s \o Repeat(s, n - 1)

RECURSIVE Join(_, _)
Join(sep, ss) ==
    IF ss = <<>> THEN <<>>
    ELSE IF Len(ss) = 1 THEN ss[1]
    ELSE ss[1] \o sep \o Join(sep, Tail(ss))

StartsWith(s, p) == Len(s) >= Len(p) /\ SubSeq(s, 1, Len(p)) = p

Drop(s, n) == SubSeq(s, n + 1, Len(s))

-----------------------------------------------------------------------------
(* Characters: str comparison is by code point, str.lower() maps the letters *)

\* the characters the model uses, in code-point order
CharOrder ==
    <<" ", "\"", "#", "%", "&", "'", ".", "/", "0", "2", "7", ";", "<", ">",
      "A", "B", "S", "W", "Z",
      "a", "b", "c", "d", "e", "f", "g", "h", "i", "j", "k", "l", "m", "n",
      "o", "p", "q", "r", "s", "t", "u", "v", "w", "x", "y", "z">>

Chars == {CharOrder[i] : i \in 1..Len(CharOrder)}

Code == [c \in Chars |-> CHOOSE i \in 1..Len(CharOrder) : CharOrder[i] = c]

LowerChar(c) ==
    CASE c = "A" -> "a" [] c = "B" -> "b" [] c = "S" -> "s"
      [] c = "W" -> "w" [] c = "Z" -> "z" [] OTHER -> c

lower(s) == [i \in 1..Len(s) |-> LowerChar(s[i])]

\* s < t for two strings
RECURSIVE StrLess(_, _)
StrLess(s, t) ==
    IF t = <<>> THEN FALSE
    ELSE IF s = <<>> THEN TRUE
    ELSE IF Head(s) = Head(t) THEN StrLess(Tail(s), Tail(t))
    ELSE Code[Head(s)] < Code[Head(t)]

\* str.replace(old, new): every occurrence, left to right, without overlap
RECURSIVE replace(_, _, _)
replace(s, old, new) ==
    IF s = <<>> THEN <<>>
    ELSE IF StartsWith(s, old) THEN new \o replace(Drop(s, Len(old)), old, new)
    ELSE <<Head(s)>> \o replace(Tail(s), old, new)

\* html.escape(s, quote=False): the quotes are left as they are
EscapeCharNoQuote(c) ==
    CASE c = "&" -> <<"&", "a", "m", "p", ";">>
      [] c = "<" -> <<"&", "l", "t", ";">>
      [] c = ">" -> <<"&", "g", "t", ";">>
      [] OTHER -> <<c>>

\* html.escape(s), quote=True
EscapeChar(c) ==
    CASE c = "&" -> <<"&", "a", "m", "p", ";">>
      [] c = "<" -> <<"&", "l", "t", ";">>
      [] c = ">" -> <<"&", "g", "t", ";">>
      [] c = "\"" -> <<"&", "q", "u", "o", "t", ";">>
      [] c = "'" -> <<"&", "#", "x", "2", "7", ";">>
      [] OTHER -> <<c>>

RECURSIVE html_escape(_)
html_escape(s) ==
    IF s = <<>> THEN <<>> ELSE EscapeChar(Head(s)) \o html_escape(Tail(s))

-----------------------------------------------------------------------------
(* Paths (pathlib): a relative path is the list of its parts *)

Slash == <<"/">>
NLOGOX == <<".", "n", "l", "o", "g", "x">>
PNG == <<".", "p", "n", "g">>
HTML == <<".", "h", "t", "m", "l">>
UP == <<".", ".", "/">>

SITE_DIR == << <<"s", "i", "t", "e">> >>
OUTPUT_MODELS_DIR == SITE_DIR \o << <<"m", "o", "d", "e", "l", "s">> >>

\* str.rfind("."), counted from 1; 0 when there is no dot
RECURSIVE rfind_dot(_)
rfind_dot(name) ==
    IF name = <<>> THEN 0
    ELSE IF name[Len(name)] = "." THEN Len(name)
    ELSE rfind_dot(SubSeq(name, 1, Len(name) - 1))

\* PurePath.suffix of a file name
suffix(name) ==
    LET i == rfind_dot(name)
    IN IF 1 < i /\ i < Len(name) THEN SubSeq(name, i, Len(name)) ELSE <<>>

\* PurePath.stem
stem(rel) ==
    LET name == rel[Len(rel)]
    IN SubSeq(name, 1, Len(name) - Len(suffix(name)))

\* PurePath.with_suffix
with_suffix(rel, suf) ==
    [rel EXCEPT ![Len(rel)] = stem(rel) \o suf]

as_posix(rel) == Join(Slash, rel)

\* PurePath.__lt__ on a POSIX system: the part lists, compared part by part
RECURSIVE PathLess(_, _)
PathLess(p, q) ==
    IF q = <<>> THEN FALSE
    ELSE IF p = <<>> THEN TRUE
    ELSE IF Head(p) = Head(q) THEN PathLess(Tail(p), Tail(q))
    ELSE StrLess(Head(p), Head(q))

\* sorted(...) of a set of distinct paths
RECURSIVE sorted_paths(_)
sorted_paths(S) ==
    IF S = {} THEN <<>>
    ELSE LET m == CHOOSE p \in S : \A q \in S \ {p} : PathLess(p, q)
         IN <<m>> \o sorted_paths(S \ {m})

-----------------------------------------------------------------------------
(* relative_image_path, netlogoweb_url, render_model_page *)

\* the image reference without the step from the output root up to ROOT_DIR
relative_image_path_from_site(model_rel, prefix) ==
    LET png_path == with_suffix(model_rel, PNG)
    IN IF png_path \in fs_png
       THEN prefix \o <<"m", "o", "d", "e", "l", "s", "/">>
                \o as_posix(with_suffix(model_rel, PNG))
       ELSE <<>>

\* None and "" are both false in `if image_src:`; both are <<>> here
relative_image_path(model_rel, prefix_to_site) ==
    LET png_path == with_suffix(model_rel, PNG)
    IN IF png_path \in fs_png
       THEN prefix_to_site \o UP \o <<"m", "o", "d", "e", "l", "s", "/">>
                \o as_posix(with_suffix(model_rel, PNG))
       ELSE <<>>

LAUNCH_URL == "https://netlogoweb.org/launch#https://netlogoweb.org/assets/modelslib/"

netlogoweb_url(model_rel) ==
    LET encoded_path == replace(as_posix(model_rel), <<" ">>, <<"%", "2", "0">>)
    IN <<LAUNCH_URL>> \o encoded_path

NO_INFO == "<p><em>No info tab found.</em></p>"
IMG_OPEN == "<img src=\""
IMG_ALT == "\" alt=\"Screenshot of "
IMG_END == "\" />"
PAGE_HEAD == "<!doctype html>\n<html lang=\"en\">\n  <head>\n    <meta charset=\"utf-8\" />\n    <meta name=\"viewport\" content=\"width=device-width, initial-scale=1\" />\n    <title>"
PAGE_CSS == "</title>\n    <link rel=\"stylesheet\" href=\""
PAGE_BACK == "\" />\n  </head>\n  <body>\n    <main class=\"model-page\">\n      <a class=\"back-link\" href=\""
PAGE_H1 == "\">Back to list</a>\n      <div class=\"model-card\">\n        <div class=\"model-header\">\n          <h1>"
PAGE_RUN == "</h1>\n          <a class=\"run-button\" href=\""
PAGE_IMAGE == "\" target=\"_blank\" rel=\"noopener\">Run on NetLogoWeb</a>\n        </div>\n        "
PAGE_INFO == "\n        <div class=\"model-info\">"
PAGE_TAIL == "</div>\n      </div>\n    </main>\n  </body>\n</html>\n"

\* the documentation HTML written as it is, empty or not
info_block_as_given(info) == info

\* line 51: the placeholder stands in for an empty info_html
info_block_of(info) == IF info # <<>> THEN info ELSE <<NO_INFO>>

render_model_page(title, model_rel, info, image_src, stylesheet_href, back_href, netlogo_url) ==
    LET escaped_title == html_escape(title)
        info_block == info_block_of(info)
        image_html ==
            IF image_src # <<>>
            THEN <<IMG_OPEN>> \o html_escape(image_src) \o <<IMG_ALT>>
                     \o escaped_title \o <<IMG_END>>
            ELSE <<>>
    IN <<PAGE_HEAD>> \o escaped_title
        \o <<PAGE_CSS>> \o html_escape(stylesheet_href)
        \o <<PAGE_BACK>> \o html_escape(back_href)
        \o <<PAGE_H1>> \o escaped_title
        \o <<PAGE_RUN>> \o html_escape(netlogo_url)
        \o <<PAGE_IMAGE>> \o image_html
        \o <<PAGE_INFO>> \o info_block
        \o <<PAGE_TAIL>>

-----------------------------------------------------------------------------
(* extract_info *)

OpenDelims == {"<info><![CDATA[", "<INFO><![cdata["}
CloseDelims == {"]]></info>", "]]></INFO>"}
Whitespace == {" ", "\n"}
RefDef == "[r]: u"
TextTokens == OpenDelims \cup CloseDelims \cup Whitespace \cup {"x"}

NoMatch == [start |-> 0, end |-> 0]

\* a greedy group (.*) instead: the last closing delimiter at or after position j
GreedyClose(text, j) ==
    LET ks == {k \in j..Len(text) : text[k] \in CloseDelims}
    IN IF ks = {} THEN 0 ELSE CHOOSE k \in ks : \A n \in ks : n <= k

\* The lazy group (.*?) followed by the closing delimiter: the first closing
\* delimiter at or after position j, 0 when there is none.
RECURSIVE LazyClose(_, _)
LazyClose(text, j) ==
    IF j > Len(text) THEN 0
    ELSE IF text[j] \in CloseDelims THEN j
    ELSE LazyClose(text, j + 1)

\* INFO_RE.search: the leftmost position at which the pattern matches.
RECURSIVE SearchFrom(_, _)
SearchFrom(text, i) ==
    IF i > Len(text) THEN NoMatch
    ELSE IF text[i] \in OpenDelims /\ LazyClose(text, i + 1) # 0
         THEN [start |-> i, end |-> LazyClose(text, i + 1)]
    ELSE SearchFrom(text, i + 1)

INFO_RE_search(text) == SearchFrom(text, 1)

RECURSIVE lstrip(_)
lstrip(s) == IF s # <<>> /\ Head(s) \in Whitespace THEN lstrip(Tail(s)) ELSE s

RECURSIVE rstrip(_)
rstrip(s) ==
    IF s # <<>> /\ s[Len(s)] \in Whitespace THEN rstrip(SubSeq(s, 1, Len(s) - 1)) ELSE s

strip(s) == rstrip(lstrip(s))

extract_info(text) ==
    LET match == INFO_RE_search(text)
    IN IF match = NoMatch THEN <<>>
       ELSE strip(SubSeq(text, match.start + 1, match.end - 1))

-----------------------------------------------------------------------------
(* markdown.markdown as main calls it: no text gives no HTML, a text made    *)
(* only of link reference definitions gives no HTML, any other text gives    *)
(* a paragraph                                                               *)

markdown(text) ==
    IF \A i \in 1..Len(text) : text[i] = RefDef \/ text[i] \in Whitespace
    THEN <<>>
    ELSE <<"<p>">> \o text \o <<"</p>">>

-----------------------------------------------------------------------------
(* add_to_tree, render_tree, render_index *)

\* the dict {}: no "children", no "files" (render_tree reads both with a default)
EmptyTree == [children |-> <<>>, files |-> <<>>]

\* position of folder among the keys of the children dict, 0 when absent
ChildIndex(children, folder) ==
    IF \E i \in 1..Len(children) : children[i].name = folder
    THEN CHOOSE i \in 1..Len(children) : children[i].name = folder
    ELSE 0

\* the file item assigned to "files" instead of appended to it
RECURSIVE add_to_tree_assigning(_, _, _)
add_to_tree_assigning(t, parts, path) ==
    IF Len(parts) = 1
    THEN [t EXCEPT !.files = <<[name |-> parts[1], path |-> path]>>]
    ELSE LET folder == parts[1]
             i == ChildIndex(t.children, folder)
         IN IF i = 0
            THEN [t EXCEPT !.children =
                     Append(@, [name |-> folder,
                                sub |-> add_to_tree_assigning(EmptyTree, Tail(parts), path)])]
            ELSE [t EXCEPT !.children[i].sub = add_to_tree_assigning(@, Tail(parts), path)]

RECURSIVE add_to_tree(_, _, _)
add_to_tree(t, parts, path) ==
    IF Len(parts) = 1
    THEN [t EXCEPT !.files = Append(@, [name |-> parts[1], path |-> path])]
    ELSE LET folder == parts[1]
             i == ChildIndex(t.children, folder)
         IN IF i = 0
            THEN [t EXCEPT !.children =
                     Append(@, [name |-> folder,
                                sub |-> add_to_tree(EmptyTree, Tail(parts), path)])]
            ELSE [t EXCEPT !.children[i].sub = add_to_tree(@, Tail(parts), path)]

\* a sort key that keeps the case of the name
SortKeyCaseSensitive(item) == item.name

\* the sort key of render_tree: the name, lowered
SortKey(item) == lower(item.name)

\* sorted(items, key=...): stable, an item goes after the items whose key is
\* not greater than its own
RECURSIVE InsertByKey(_, _)
InsertByKey(done, item) ==
    IF done = <<>> THEN <<item>>
    ELSE IF StrLess(SortKey(item), SortKey(Head(done)))
         THEN <<item>> \o done
    ELSE <<Head(done)>> \o InsertByKey(Tail(done), item)

RECURSIVE SortedFrom(_, _)
SortedFrom(done, items) ==
    IF items = <<>> THEN done
    ELSE SortedFrom(InsertByKey(done, Head(items)), Tail(items))

sorted_by_name(items) == SortedFrom(<<>>, items)

UL_OPEN == "<ul>"
UL_CLOSE == "</ul>"
NEWLINE == "\n"
FOLDER_OPEN == "<li><details"
OPEN_ATTR == " open"
FOLDER_SUMMARY == "><summary><span class=\"icon folder\">&#128193;</span>"
FOLDER_NAME_END == "</summary>"
FOLDER_CLOSE == "</details></li>"
FILE_OPEN == "<li><a href=\""
FILE_TARGET == "\" target=\"_blank\" rel=\"noopener\">"
FILE_ICON == "<img class=\"icon file-icon\" src=\"assets/model.png\" alt=\"\" />"
FILE_CLOSE == "</a></li>"

\* the display name of a file item
display_name(name) == replace(name, NLOGOX, <<>>)

\* the html_parts of one file item
file_part(file_item) ==
    <<FILE_OPEN>> \o html_escape(file_item.path) \o <<FILE_TARGET, FILE_ICON>>
        \o html_escape(display_name(file_item.name)) \o <<FILE_CLOSE>>

\* render_tree; its prefix parameter is passed down and never read
RECURSIVE render_tree(_, _)
render_tree(t, open_root) ==
    LET folders == sorted_by_name(t.children)
        files == sorted_by_name(t.files)
        open_attr == IF open_root THEN <<OPEN_ATTR>> ELSE <<>>
        folder_parts ==
            Concat([i \in 1..Len(folders) |->
                << <<FOLDER_OPEN>> \o open_attr \o <<FOLDER_SUMMARY>>
                       \o html_escape(folders[i].name) \o <<FOLDER_NAME_END>>,
                   render_tree(folders[i].sub, FALSE),
                   <<FOLDER_CLOSE>> >>])
        file_parts == [i \in 1..Len(files) |-> file_part(files[i])]
        html_parts == << <<UL_OPEN>> >> \o folder_parts \o file_parts \o << <<UL_CLOSE>> >>
    IN Join(<<NEWLINE>>, html_parts)

Digits == <<"0", "1", "2", "3", "4", "5", "6", "7", "8", "9">>

\* str(count) of a count >= 0
RECURSIVE Decimal(_)
Decimal(n) ==
    IF n < 10 THEN <<Digits[n + 1]>>
    ELSE Decimal(n \div 10) \o <<Digits[(n % 10) + 1]>>

INDEX_HEAD == "<!doctype html>\n<html lang=\"en\">\n  <head>\n    <title>NetLogo Models</title>\n    <link rel=\"stylesheet\" href=\"styles.css\" />\n  </head>\n  <body>\n    <main class=\"main\">\n      <div class=\"stats-row\">\n        <div class=\"stats\">"
INDEX_STATS_END == " models</div>\n        <div class=\"header__actions\">(buttons)</div>\n      </div>\n      <div class=\"tree\">"
INDEX_TAIL == "</div>\n    </main>\n    <script>(expand and collapse)</script>\n  </body>\n</html>\n"

render_index(t, count) ==
    LET tree_html == render_tree(t, FALSE)
    IN <<INDEX_HEAD>> \o Decimal(count) \o <<INDEX_STATS_END>> \o tree_html
           \o <<INDEX_TAIL>>

-----------------------------------------------------------------------------
(* The model files a run can find *)

F_a == <<"a">> \o NLOGOX
F_A == <<"A">> \o NLOGOX
F_B == <<"B">> \o NLOGOX
F_WS == <<"W", " ", "S">> \o NLOGOX
F_double == <<"a">> \o NLOGOX \o NLOGOX
F_special == <<"&", "l", "t", ";", "<", "\"", "'">> \o NLOGOX
D_Bio == <<"B", "i", "o">>
D_bio == <<"b", "i", "o">>
D_Zoo == <<"Z", "o", "o">>
D_special == <<"x", ">", "&">>

\* the model files of a run of main: two at the root that differ in case only,
\* folders that differ in case only, depths one to three
ModelUniverse ==
    { <<F_a>>, <<F_A>>,
      <<D_Bio, F_WS>>, <<D_bio, F_double>>,
      <<D_Bio, D_special, F_special>> }

\* the paths of SpecTree: also names that sort differently with and without case
PathUniverse == ModelUniverse \cup { <<F_B>>, <<D_Zoo, F_a>> }

OPEN_1 == "<info><![CDATA["
OPEN_2 == "<INFO><![cdata["
CLOSE_1 == "]]></info>"

TextUniverse ==
    { <<"x", NEWLINE>>,                                 \* no documentation block
      <<"x", OPEN_1, NEWLINE, "x", " ", CLOSE_1, "x">>, \* a block with text
      <<OPEN_2, " ", RefDef, NEWLINE, CLOSE_1>> }       \* a block markdown renders to nothing

-----------------------------------------------------------------------------
(* main *)

\* main's per-model values
model_rel == model_paths[idx]
title == stem(model_rel)
depth == Len(model_rel)
\* one "../" fewer than the depth: the folders of the model alone
prefix_one_short == Repeat(UP, Len(model_paths[idx]) - 1)

prefix_to_site == Repeat(UP, depth)
stylesheet_href == prefix_to_site \o <<"s", "t", "y", "l", "e", "s", ".", "c", "s", "s">>
back_href == prefix_to_site \o <<"i", "n", "d", "e", "x", ".", "h", "t", "m", "l">>
image_src == relative_image_path(model_rel, prefix_to_site)
output_path == OUTPUT_MODELS_DIR \o with_suffix(model_rel, HTML)
link_path_of(rel) == <<"m", "o", "d", "e", "l", "s", "/">> \o as_posix(with_suffix(rel, HTML))
link_path == link_path_of(model_rel)

write_text(files, path, content) ==
    [p \in (DOMAIN files) \cup {path} |-> IF p = path THEN content ELSE files[p]]

Init ==
    /\ IdleExtract /\ IdleTree
    /\ pc = "start"
    /\ fs_models \in {S \in SUBSET ModelUniverse : Cardinality(S) <= MaxModels}
    /\ fs_text \in [fs_models -> TextUniverse]
    /\ fs_png \in SUBSET {with_suffix(m, PNG) : m \in fs_models}
    /\ model_paths = <<>> /\ idx = 0 /\ info_html = <<>> /\ page_html = <<>>
    /\ tree = <<>> /\ site = <<>> /\ index_html = <<>> /\ index_writes = 0

\* lines 169-172: the models are discovered and sorted, the tree is empty
Discover ==
    /\ pc = "start"
    /\ model_paths' = sorted_paths(fs_models)
    /\ tree' = EmptyTree
    /\ idx' = 1
    /\ pc' = "loop"
    /\ UNCHANGED <<fs_models, fs_text, fs_png, info_html, page_html, site,
                   index_html, index_writes, extractVars, treeVars>>

\* lines 175-181: the model file is read, its documentation extracted and rendered
ExtractModel ==
    /\ pc = "loop" /\ idx <= Len(model_paths)
    /\ info_html' = markdown(extract_info(fs_text[model_rel]))
    /\ pc' = "extracted"
    /\ UNCHANGED <<fs_models, fs_text, fs_png, model_paths, idx, page_html, tree,
                   site, index_html, index_writes, extractVars, treeVars>>

\* lines 182-199: the links are computed and the page rendered
RenderModel ==
    /\ pc = "extracted"
    /\ page_html' = render_model_page(title, model_rel, info_html, image_src,
                                      stylesheet_href, back_href,
                                      netlogoweb_url(model_rel))
    /\ pc' = "rendered"
    /\ UNCHANGED <<fs_models, fs_text, fs_png, model_paths, idx, info_html, tree,
                   site, index_html, index_writes, extractVars, treeVars>>

\* line 200: the page is written
WriteModel ==
    /\ pc = "rendered"
    /\ site' = write_text(site, output_path, page_html)
    /\ pc' = "written"
    /\ UNCHANGED <<fs_models, fs_text, fs_png, model_paths, idx, info_html,
                   page_html, tree, index_html, index_writes, extractVars, treeVars>>

\* lines 202-203: the model is registered in the tree, the loop goes on
RegisterModel ==
    /\ pc = "written"
    /\ tree' = add_to_tree(tree, model_rel, link_path)
    /\ idx' = idx + 1
    /\ pc' = "loop"
    /\ UNCHANGED <<fs_models, fs_text, fs_png, model_paths, info_html, page_html,
                   site, index_html, index_writes, extractVars, treeVars>>

\* the index written when the loop is at its last model, not past it
WriteIndexEarly ==
    /\ pc = "loop" /\ idx >= Len(model_paths)
    /\ index_html' = render_index(tree, Len(model_paths))
    /\ index_writes' = index_writes + 1
    /\ pc' = "done"
    /\ UNCHANGED <<fs_models, fs_text, fs_png, model_paths, idx, info_html,
                   page_html, tree, site, extractVars, treeVars>>

\* lines 205-206: after the loop the index is rendered and written
WriteIndex ==
    /\ pc = "loop" /\ idx > Len(model_paths)
    /\ index_html' = render_index(tree, Len(model_paths))
    /\ index_writes' = index_writes + 1
    /\ pc' = "done"
    /\ UNCHANGED <<fs_models, fs_text, fs_png, model_paths, idx, info_html,
                   page_html, tree, site, extractVars, treeVars>>

\* read_text or write_text raises OSError: nothing catches it, main ends there
ReadError ==
    /\ pc = "loop" /\ idx <= Len(model_paths)
    /\ pc' = "aborted"
    /\ UNCHANGED <<fs_models, fs_text, fs_png, model_paths, idx, info_html,
                   page_html, tree, site, index_html, index_writes,
                   extractVars, treeVars>>

WriteError ==
    /\ \/ pc = "rendered"
       \/ pc = "loop" /\ idx > Len(model_paths)
    /\ pc' = "aborted"
    /\ UNCHANGED <<fs_models, fs_text, fs_png, model_paths, idx, info_html,
                   page_html, tree, site, index_html, index_writes,
                   extractVars, treeVars>>

Next ==
    \/ Discover
    \/ ExtractModel
    \/ RenderModel
    \/ WriteModel
    \/ RegisterModel
    \/ WriteIndex
    \/ ReadError
    \/ WriteError

Spec == Init /\ [][Next]_vars

-----------------------------------------------------------------------------
(* SpecTree: entries inserted into an empty tree in any order, then rendered *)

EntryUniverse == {[parts |-> m, path |-> link_path_of(m)] : m \in PathUniverse}

InitTree ==
    /\ IdleMain /\ IdleExtract
    /\ t_entries \in {S \in SUBSET EntryUniverse : Cardinality(S) <= MaxEntries}
    /\ t_pending = t_entries
    /\ t_tree = EmptyTree
    /\ t_out = None

TreeInsert ==
    /\ t_out = None
    /\ \E e \in t_pending :
          /\ t_tree' = add_to_tree(t_tree, e.parts, e.path)
          /\ t_pending' = t_pending \ {e}
    /\ UNCHANGED <<t_entries, t_out, mainVars, extractVars>>

TreeRender ==
    /\ t_out = None
    /\ t_pending = {}
    /\ t_out' = render_tree(t_tree, FALSE)
    /\ UNCHANGED <<t_entries, t_pending, t_tree, mainVars, extractVars>>

NextTree == TreeInsert \/ TreeRender

SpecTree == InitTree /\ [][NextTree]_vars

-----------------------------------------------------------------------------
(* SpecExtract: extract_info applied to every text of at most MaxLen tokens *)

InitExtract ==
    /\ IdleMain /\ IdleTree
    /\ x_text \in SeqsUpTo(TextTokens, MaxLen)
    /\ x_result = None

Extract ==
    /\ x_result = None
    /\ x_result' = extract_info(x_text)
    /\ UNCHANGED <<x_text, mainVars, treeVars>>

NextExtract == Extract

SpecExtract == InitExtract /\ [][NextExtract]_vars

-----------------------------------------------------------------------------
(* Reading a rendered document back *)

\* the first position at or after from that holds tok, 0 when there is none
IndexOf(doc, tok, from) ==
    LET at == {i \in from..Len(doc) : doc[i] = tok}
    IN IF at = {} THEN 0 ELSE CHOOSE i \in at : \A k \in at : i <= k

Has(doc, tok) == IndexOf(doc, tok, 1) # 0

\* what stands between the first openTok and the next closeTok
Field(doc, openTok, closeTok) ==
    LET i == IndexOf(doc, openTok, 1)
        j == IndexOf(doc, closeTok, i + 1)
    IN SubSeq(doc, i + 1, j - 1)

\* the character references html.escape writes, and what each stands for
Entities ==
    { <<"&", <<"&", "a", "m", "p", ";">> >>,
      <<"<", <<"&", "l", "t", ";">> >>,
      <<">", <<"&", "g", "t", ";">> >>,
      <<"\"", <<"&", "q", "u", "o", "t", ";">> >>,
      <<"'", <<"&", "#", "x", "2", "7", ";">> >> }

\* what a browser reads from an escaped text or attribute value
RECURSIVE Unescaped(_)
Unescaped(s) ==
    IF s = <<>> THEN <<>>
    ELSE IF Head(s) = "&" /\ \E e \in Entities : StartsWith(s, e[2])
         THEN LET e == CHOOSE f \in Entities : StartsWith(s, f[2])
              IN <<e[1]>> \o Unescaped(Drop(s, Len(e[2])))
    ELSE <<Head(s)>> \o Unescaped(Tail(s))

\* no markup character stands raw in s: every & starts a character reference
NoRawMarkup(s) ==
    \A i \in 1..Len(s) :
        /\ s[i] \notin {"<", ">", "\"", "'"}
        /\ s[i] = "&" => \E e \in Entities : StartsWith(Drop(s, i - 1), e[2])

\* the positions of a set in increasing order
Ascending(S) ==
    [k \in 1..Cardinality(S) |-> CHOOSE i \in S : Cardinality({j \in S : j < i}) = k - 1]

\* how many <ul> are open at position i
DepthAt(doc, i) ==
    Cardinality({k \in 1..i : doc[k] = UL_OPEN}) - Cardinality({k \in 1..i : doc[k] = UL_CLOSE})

FolderItemAt(doc, i) ==
    LET a == IndexOf(doc, FOLDER_SUMMARY, i)
        b == IndexOf(doc, FOLDER_NAME_END, a)
    IN [kind |-> "folder", depth |-> DepthAt(doc, i), href |-> <<>>,
        text |-> SubSeq(doc, a + 1, b - 1)]

FileItemAt(doc, i) ==
    LET a == IndexOf(doc, FILE_TARGET, i)
        b == IndexOf(doc, FILE_ICON, a)
        c == IndexOf(doc, FILE_CLOSE, b)
    IN [kind |-> "file", depth |-> DepthAt(doc, i), href |-> SubSeq(doc, i + 1, a - 1),
        text |-> SubSeq(doc, b + 1, c - 1)]

\* the list entries of a rendered tree in document order, each with the
\* nesting depth of the <ul> that holds it
TreeItems(doc) ==
    LET starts == Ascending({i \in 1..Len(doc) : doc[i] \in {FOLDER_OPEN, FILE_OPEN}})
    IN [k \in 1..Len(starts) |->
           IF doc[starts[k]] = FOLDER_OPEN THEN FolderItemAt(doc, starts[k])
           ELSE FileItemAt(doc, starts[k])]

IsFile(item) == item.kind = "file"
IsFolder(item) == item.kind = "folder"
Leaves(doc) == SelectSeq(TreeItems(doc), IsFile)
FolderItems(doc) == SelectSeq(TreeItems(doc), IsFolder)

\* items i < j stand in the same <ul>
SameLevel(items, i, j) ==
    /\ i < j
    /\ items[i].depth = items[j].depth
    /\ \A k \in i..j : items[k].depth >= items[i].depth

Range(f) == {f[i] : i \in DOMAIN f}

OutputOf(m) == OUTPUT_MODELS_DIR \o with_suffix(m, HTML)
Written(m) == OutputOf(m) \in DOMAIN site
PageOf(m) == site[OutputOf(m)]
FileName(m) == m[Len(m)]
IndexTree == Field(index_html, INDEX_STATS_END, INDEX_TAIL)
IndexStats == Field(index_html, INDEX_HEAD, INDEX_STATS_END)

-----------------------------------------------------------------------------
\* C4: extract_info returns the trimmed text between the first opening
\* delimiter and the first closing delimiter after it, whatever surrounds the
\* block, and the empty string when the text holds no complete delimiter pair.

Opens(text) == {i \in 1..Len(text) : text[i] \in OpenDelims}
ClosesAfter(text, i) == {k \in (i + 1)..Len(text) : text[k] \in CloseDelims}
Min(S) == CHOOSE m \in S : \A n \in S : m <= n
HasPair(text) == \E i \in Opens(text) : ClosesAfter(text, i) # {}

\* t is s without its leading and trailing whitespace
IsTrimOf(t, s) ==
    \E a \in 1..(Len(s) + 1), b \in 0..Len(s) :
        /\ t = SubSeq(s, a, b)
        /\ \A k \in 1..(a - 1) : s[k] \in Whitespace
        /\ \A k \in (b + 1)..Len(s) : s[k] \in Whitespace
        /\ t # <<>> => (t[1] \notin Whitespace /\ t[Len(t)] \notin Whitespace)
        /\ t = <<>> => \A k \in 1..Len(s) : s[k] \in Whitespace

InnerOfFirstBlock(text) ==
    LET i == Min(Opens(text))
        k == Min(ClosesAfter(text, i))
    IN SubSeq(text, i + 1, k - 1)

C4_ExtractFirstBlockTrimmed ==
    x_result # None =>
        IF HasPair(x_text)
        THEN IsTrimOf(x_result, InnerOfFirstBlock(x_text))
        ELSE x_result = <<>>

\* a block with text before it and whitespace to trim inside it
C4_Witness ==
    /\ x_result # None
    /\ x_result # <<>>
    /\ HasPair(x_text)
    /\ x_text[1] \notin OpenDelims
    /\ Len(x_result) < Len(InnerOfFirstBlock(x_text))

-----------------------------------------------------------------------------
\* C2 as stated: the <img> src of the page of a model d segments deep that
\* has a screenshot is d times "../", then models/<relative path>.png.

ImgSrc(page) == Unescaped(Field(page, IMG_OPEN, IMG_ALT))
HasPng(m) == with_suffix(m, PNG) \in fs_png
PngUnderModels(m) ==
    <<"m", "o", "d", "e", "l", "s", "/">> \o as_posix(with_suffix(m, PNG))

C2_Original_ImgSrcDepthUps ==
    \A m \in fs_models :
        (Written(m) /\ HasPng(m)) =>
            /\ Has(PageOf(m), IMG_OPEN)
            /\ ImgSrc(PageOf(m)) = Repeat(UP, Len(m)) \o PngUnderModels(m)

\* C2 as amended: the <img> src of the page of a model d segments deep that
\* has a screenshot is d + 1 times "../", then models/<relative path>.png
\* (../../../models/Biology/Wolf Sheep.png for Biology/Wolf Sheep).
C2_ImgSrcDepthPlusOneUps ==
    \A m \in fs_models :
        (Written(m) /\ HasPng(m)) =>
            /\ Has(PageOf(m), IMG_OPEN)
            /\ ImgSrc(PageOf(m)) = Repeat(UP, Len(m) + 1) \o PngUnderModels(m)

\* the page of a model two segments deep, with a screenshot, is written
C2_Witness ==
    \E m \in fs_models : Len(m) = 2 /\ HasPng(m) /\ Written(m)

-----------------------------------------------------------------------------
\* C3: the back link and the stylesheet link of every page are "../"
\* segments followed by the file name, and from the directory the page is
\* written to they lead to index.html and styles.css directly under the
\* output root.

RECURSIVE Split(_, _)
Split(s, sep) ==
    LET i == IndexOf(s, sep, 1)
    IN IF i = 0 THEN <<s>>
       ELSE <<SubSeq(s, 1, i - 1)>> \o Split(Drop(s, i), sep)

\* a relative reference resolved against a directory (a list of parts)
RECURSIVE Walk(_, _)
Walk(dir, segs) ==
    IF segs = <<>> THEN dir
    ELSE IF Head(segs) = <<".", ".">>
         THEN Walk(SubSeq(dir, 1, Len(dir) - 1), Tail(segs))
    ELSE Walk(Append(dir, Head(segs)), Tail(segs))

Resolve(dir, href) == Walk(dir, Split(href, "/"))

DirOf(path) == SubSeq(path, 1, Len(path) - 1)
OnlyUpsThen(href, file) ==
    LET k == (Len(href) - Len(file)) \div Len(UP)
    IN k >= 0 /\ href = Repeat(UP, k) \o file
INDEX_FILE == <<"i", "n", "d", "e", "x", ".", "h", "t", "m", "l">>
STYLES_FILE == <<"s", "t", "y", "l", "e", "s", ".", "c", "s", "s">>
BackHref(page) == Unescaped(Field(page, PAGE_BACK, PAGE_H1))
CssHref(page) == Unescaped(Field(page, PAGE_CSS, PAGE_BACK))

C3_LinksLeadToOutputRoot ==
    \A m \in fs_models :
        Written(m) =>
            /\ OnlyUpsThen(BackHref(PageOf(m)), INDEX_FILE)
            /\ OnlyUpsThen(CssHref(PageOf(m)), STYLES_FILE)
            /\ Resolve(DirOf(OutputOf(m)), BackHref(PageOf(m))) = SITE_DIR \o <<INDEX_FILE>>
            /\ Resolve(DirOf(OutputOf(m)), CssHref(PageOf(m))) = SITE_DIR \o <<STYLES_FILE>>
            /\ Len(m) = 2 => BackHref(PageOf(m)) = UP \o UP \o INDEX_FILE

\* a page three segments deep and a shallower one have been written
C3_Witness ==
    /\ \E m \in fs_models : Len(m) = 3 /\ Written(m)
    /\ \E m \in fs_models : Len(m) < 3 /\ Written(m)

-----------------------------------------------------------------------------
\* C5: the page of a model file without a complete documentation delimiter
\* pair, and of a model whose documentation renders to no HTML, holds the
\* placeholder paragraph in its documentation container; the container of a
\* page is never empty.

InfoContainer(page) == Field(page, PAGE_INFO, PAGE_TAIL)

C5_PlaceholderNeverEmpty ==
    \A m \in fs_models :
        Written(m) =>
            /\ InfoContainer(PageOf(m)) # <<>>
            /\ ~HasPair(fs_text[m]) => InfoContainer(PageOf(m)) = <<NO_INFO>>
            /\ markdown(extract_info(fs_text[m])) = <<>> =>
                   InfoContainer(PageOf(m)) = <<NO_INFO>>

\* a page of a model without the delimiter and a page of a model whose
\* block renders to nothing have been written
C5_Witness ==
    /\ \E m \in fs_models : Written(m) /\ ~HasPair(fs_text[m])
    /\ \E m \in fs_models :
          Written(m) /\ HasPair(fs_text[m]) /\ markdown(extract_info(fs_text[m])) = <<>>

-----------------------------------------------------------------------------
\* C6: in every page and in the tree of the index, the title, the folder
\* names, the displayed file names and the href and src values stand in
\* escaped form only (no raw <, >, quote or &), and each reads back as the
\* string it was made from.

EscapedAs(field, original) == NoRawMarkup(field) /\ Unescaped(field) = original

PageEscaped(m) ==
    LET page == PageOf(m)
    IN /\ EscapedAs(Field(page, PAGE_HEAD, PAGE_CSS), stem(m))
       /\ EscapedAs(Field(page, PAGE_H1, PAGE_RUN), stem(m))
       /\ EscapedAs(Field(page, PAGE_CSS, PAGE_BACK), Repeat(UP, Len(m)) \o STYLES_FILE)
       /\ EscapedAs(Field(page, PAGE_BACK, PAGE_H1), Repeat(UP, Len(m)) \o INDEX_FILE)
       /\ EscapedAs(Field(page, PAGE_RUN, PAGE_IMAGE), netlogoweb_url(m))
       /\ Has(page, IMG_OPEN) =>
              /\ EscapedAs(Field(page, IMG_OPEN, IMG_ALT),
                           Repeat(UP, Len(m) + 1) \o PngUnderModels(m))
              /\ EscapedAs(Field(page, IMG_ALT, IMG_END), stem(m))

FolderNames(models) == UNION {{m[i] : i \in 1..(Len(m) - 1)} : m \in models}

TreeEscaped(doc, models) ==
    /\ \A it \in Range(TreeItems(doc)) : NoRawMarkup(it.text) /\ NoRawMarkup(it.href)
    /\ {Unescaped(it.text) : it \in Range(FolderItems(doc))} = FolderNames(models)
    /\ {<<Unescaped(it.href), Unescaped(it.text)>> : it \in Range(Leaves(doc))}
           = {<<link_path_of(m), display_name(FileName(m))>> : m \in models}

C6_OnlyEscapedOutput ==
    /\ \A m \in fs_models : Written(m) => PageEscaped(m)
    /\ index_writes > 0 => TreeEscaped(IndexTree, fs_models)

\* the index and the page of a model whose title, folder and path hold
\* <, >, &, both quotes and a literal character reference are written
C6_Witness ==
    /\ index_writes > 0
    /\ <<D_Bio, D_special, F_special>> \in fs_models
    /\ HasPng(<<D_Bio, D_special, F_special>>)
    /\ Written(<<D_Bio, D_special, F_special>>)

-----------------------------------------------------------------------------
\* C8: after a complete run the tree of the index holds exactly one leaf
\* entry for each discovered model and no other, and the count shown in the
\* index is that number of leaf entries.

LeavesFor(doc, m) ==
    {i \in 1..Len(Leaves(doc)) : Unescaped(Leaves(doc)[i].href) = link_path_of(m)}

C8_OneLeafPerModelAndCount ==
    pc = "done" =>
        /\ \A m \in fs_models : Cardinality(LeavesFor(IndexTree, m)) = 1
        /\ Len(Leaves(IndexTree)) = Cardinality(fs_models)
        /\ IndexStats = Decimal(Len(Leaves(IndexTree)))

\* a complete run over a model two folders deep and a model at the root
C8_Witness ==
    /\ pc = "done"
    /\ fs_models = {<<D_Bio, D_special, F_special>>, <<F_a>>}
    /\ IndexStats = <<"2">>

-----------------------------------------------------------------------------
\* C9: every leaf of the rendered tree shows the file's name without its
\* trailing .nlogox, every other character kept, and links to the page
\* written for the model, models/<relative path>.html.

WithoutTrailingExt(name) ==
    IF Len(name) >= Len(NLOGOX)
       /\ SubSeq(name, Len(name) - Len(NLOGOX) + 1, Len(name)) = NLOGOX
    THEN SubSeq(name, 1, Len(name) - Len(NLOGOX))
    ELSE name

C9_LeafShowsNameWithoutExtension ==
    pc = "done" =>
        \A m \in fs_models :
            \E it \in Range(Leaves(IndexTree)) :
                /\ Unescaped(it.href) = link_path_of(m)
                /\ Resolve(SITE_DIR, Unescaped(it.href)) = OutputOf(m)
                /\ Written(m)
                /\ Unescaped(it.text) = WithoutTrailingExt(FileName(m))

-----------------------------------------------------------------------------
\* C10: main handles the models one at a time, each page written before the
\* next model is begun; index.html is written once, after every page; a run
\* that aborts has not written index.html, and no page once written is
\* removed or rewritten.

PagesOfFirst(n) == {OutputOf(model_paths[i]) : i \in 1..n}
LeafCount(t) == Len(Leaves(render_tree(t, FALSE)))

C10_Positions ==
    /\ index_writes <= 1
    /\ pc \in {"loop", "extracted", "rendered"} =>
           /\ DOMAIN site = PagesOfFirst(idx - 1)
           /\ LeafCount(tree) = idx - 1
    /\ pc = "written" =>
           /\ DOMAIN site = PagesOfFirst(idx)
           /\ LeafCount(tree) = idx - 1
    /\ index_writes = 1 =>
           /\ pc = "done"
           /\ DOMAIN site = PagesOfFirst(Len(model_paths))
           /\ Range(model_paths) = fs_models
    /\ pc = "done" => index_writes = 1
    /\ pc = "aborted" => index_writes = 0 /\ index_html = <<>>

C10_PagesKept ==
    \A p \in DOMAIN site : p \in DOMAIN site' /\ site'[p] = site[p]

C10_SequentialRun == [](C10_Positions) /\ [][C10_PagesKept]_vars

\* a run aborted on its second model, the page of the first one written
C10_Witness ==
    /\ pc = "aborted"
    /\ idx = 2
    /\ Cardinality(DOMAIN site) = 1

-----------------------------------------------------------------------------
\* C1: a set of entries inserted with add_to_tree in any order renders to
\* the same HTML, also when two names in a folder differ only in case: every
\* order gives what inserting in sorted path order (the order of main) gives.

RECURSIVE BuildTree(_, _)
BuildTree(t, entries) ==
    IF entries = <<>> THEN t
    ELSE BuildTree(add_to_tree(t, Head(entries).parts, Head(entries).path),
                   Tail(entries))

InSortedOrder(entries) ==
    LET paths == sorted_paths({e.parts : e \in entries})
    IN [i \in 1..Len(paths) |-> CHOOSE e \in entries : e.parts = paths[i]]

C1_OrderIndependentRendering ==
    t_out # None =>
        t_out = render_tree(BuildTree(EmptyTree, InSortedOrder(t_entries)), FALSE)

-----------------------------------------------------------------------------
\* C7: at every level of the rendered tree the folder entries come before
\* the file entries, the folder names are in non-decreasing case-insensitive
\* order and so are the file names, whatever the order of insertion.

LowerLeq(s, t) == ~StrLess(lower(t), lower(s))

\* the name of the file a leaf entry was rendered from
FileNameOf(item) ==
    LET e == CHOOSE f \in t_entries : html_escape(f.path) = item.href
    IN e.parts[Len(e.parts)]

C7_SortedLevels ==
    t_out # None =>
        LET items == TreeItems(t_out)
        IN /\ Len(items) = Cardinality(t_entries)
                  + Cardinality(UNION {{SubSeq(e.parts, 1, k) : k \in 1..(Len(e.parts) - 1)}
                                          : e \in t_entries})
           /\ \A i, j \in 1..Len(items) :
                 SameLevel(items, i, j) =>
                     /\ IsFile(items[i]) => IsFile(items[j])
                     /\ (IsFolder(items[i]) /\ IsFolder(items[j])) =>
                            LowerLeq(Unescaped(items[i].text), Unescaped(items[j].text))
                     /\ (IsFile(items[i]) /\ IsFile(items[j])) =>
                            LowerLeq(FileNameOf(items[i]), FileNameOf(items[j]))

\* a rendered tree with a folder and two files at the root whose order
\* differs between case-sensitive and case-insensitive comparison
C7_Witness ==
    /\ t_out # None
    /\ {e.parts : e \in t_entries} = {<<F_a>>, <<F_B>>, <<D_Zoo, F_a>>}

====
